---- MODULE Spec2Model ----
(***************************************************************************)
(* A model of bot.js: the /check command handler, the Bottleneck limiter   *)
(* it schedules analyses on, analyzeToken with its three fetches, and the  *)
(* two pure heuristics checkHoneypotLogic and checkOwnership.              *)
(***************************************************************************)
EXTENDS Integers, Sequences, FiniteSets, TLC

(***************************************************************************)
(* Values                                                                  *)
(***************************************************************************)

\* An absent accountInfo (null / undefined in the source).
Null == [absent |-> TRUE]

\* The owner string checkOwnership compares with (the system program).
SystemProgram == "11111111111111111111111111111111"

\* Owners the node may report, as accountInfo.owner.toBase58() renders them.
Owners == {SystemProgram, "TokenkegQfeZyiNwAJbNbGKPFXCWuBvf9Ss623VQ5DA"}

\* Balances the node may report.
Lamports == {0, 2039280}

\* What getAccountInfo resolves to.
AccountInfos == [owner : Owners, lamports : Lamports]

\* The types getTokenTransactions produces, and the one checkHoneypotLogic
\* tests for.
FetchedTypes == {"confirmed", "failed"}
TxTypes == FetchedTypes \cup {"receive"}

\* Longest transaction sequence handed to the pure heuristics.
MaxTxLen == 3

\* Sequences of transaction records of length at most n, with types in T;
\* the record at position i has txId i.
TxSeqs(T, n) ==
    UNION {{[i \in 1..k |-> [txId |-> i, type |-> f[i]]] : f \in [1..k -> T]} : k \in 0..n}

(***************************************************************************)
(* The pure heuristics                                                     *)
(***************************************************************************)

\* The heuristic with && in place of || on its first line.
checkHoneypotLogicAnd(accountInfo, transactions) ==
    IF accountInfo = Null /\ Len(transactions) = 0 THEN TRUE
    ELSE IF \A i \in 1..Len(transactions) : transactions[i].type = "receive" THEN TRUE
    ELSE FALSE

\* The heuristic with some() in place of every().
checkHoneypotLogicSome(accountInfo, transactions) ==
    IF accountInfo = Null \/ Len(transactions) = 0 THEN TRUE
    ELSE IF \E i \in 1..Len(transactions) : transactions[i].type = "receive" THEN TRUE
    ELSE FALSE

checkHoneypotLogic(accountInfo, transactions) ==
    IF accountInfo = Null \/ Len(transactions) = 0 THEN TRUE
    ELSE IF \A i \in 1..Len(transactions) : transactions[i].type = "receive" THEN TRUE
    ELSE FALSE

\* The three strings checkOwnership returns; the template string is the pair
\* of its fixed text and the owner it interpolates.
OwnershipUnknown == <<"Unknown">>
OwnershipCentralized == <<"Centralized Ownership">>
OwnershipOwner(owner) == <<"Owner: ", owner>>

\* checkOwnership without the comparison with the system program.
checkOwnershipNoSystem(accountInfo) ==
    IF accountInfo = Null THEN OwnershipUnknown
    ELSE OwnershipOwner(accountInfo.owner)

checkOwnership(accountInfo) ==
    IF accountInfo = Null THEN OwnershipUnknown
    ELSE IF accountInfo.owner = SystemProgram THEN OwnershipCentralized
    ELSE OwnershipOwner(accountInfo.owner)

\* The honeypot line of the report.
HighRisk == "High Risk"
NoneDetected == "No Honeypot Detected"
honeypotLabel(isHoneypot) == IF isHoneypot THEN HighRisk ELSE NoneDetected

(***************************************************************************)
(* Configuration and inputs                                                *)
(***************************************************************************)

\* The limiter's options.
minTime == 300
maxConcurrent == 5

\* The limit passed to getConfirmedSignaturesForAddress2 and the length of
\* the slice of the report.
SignatureLimit == 10
ReportLimit == 5

\* Number of /check messages, and number of tasks handed to the limiter on
\* its own.
NumRequests == 2
NumTasks == 6

\* Length of the longest history the node holds for the address.
MaxHistory == 11

\* The clock advances in steps of this many time units.
TimeStep == 100

Requests == 1..NumRequests
Tasks == 1..(IF NumTasks > NumRequests THEN NumTasks ELSE NumRequests)

Min(a, b) == IF a < b THEN a ELSE b
Max(a, b) == IF a > b THEN a ELSE b

\* The addresses users send: one that new PublicKey() accepts, one it rejects.
WellFormed == "So11111111111111111111111111111111111111112"
Malformed == "not-a-public-key"
Addresses == {WellFormed, Malformed}

\* new PublicKey(address) returns (TRUE) or throws (FALSE).
IsPublicKey(address) == address = WellFormed

\* The symbols users send and symbol.toLowerCase().
Symbols == {"Solana", "doesnotexist"}
toLowerCase(symbol) == IF symbol = "Solana" THEN "solana" ELSE symbol

\* A JSON null where a number is expected.
JsonNull == -1

\* The market provider's entry for the id "solana", with and without a
\* market capitalisation.
SolanaEntry(cap) ==
    [name |-> "Solana", symbol |-> "sol", current_price |-> 150, market_cap |-> cap]

\* The messages of the errors the libraries throw.
InvalidKey == "Invalid public key input"
TransportMessage == "fetch failed"
NullCapMessage == "Cannot read properties of null (reading 'toLocaleString')"

\* A response of the network: a value, or an error with its message.
Value(v) == [err |-> FALSE, value |-> v, message |-> ""]
Failure(m) == [err |-> TRUE, value |-> Null, message |-> m]

\* The histories the node may hold: k signatures, the i-th with signature i,
\* none of them failed, all of them failed, or every second one failed.
ErrPatterns == {"none", "all", "even"}
History(k, p) ==
    [i \in 1..k |-> [signature |-> i,
                     err |-> (p = "all" \/ (p = "even" /\ i % 2 = 0))]]
Histories == {History(k, p) : k \in 0..MaxHistory, p \in ErrPatterns}

\* The states of the chain node (for the well-formed address) and of the
\* market provider (its entries for the id "solana").
Worlds ==
    [account : {Null} \cup AccountInfos,
     history : Histories,
     listing : {<<>>, <<SolanaEntry(71234567)>>, <<SolanaEntry(JsonNull)>>,
                <<SolanaEntry(999), SolanaEntry(71234567)>>}]

\* The world of the runs that make no network call.
QuietWorld == [account |-> Null, history |-> <<>>, listing |-> <<>>]

VARIABLES
    world,        \* the chain node's and the market provider's state
    req,          \* req[r]: the /check handler's r-th invocation
    job,          \* job[t]: the limiter's job for task t
    queue,        \* the limiter's queue of jobs not yet registered
    running,      \* the limiter's count of registered, unfinished jobs
    cooldown,     \* time left until the limiter's next permitted start
    sinceStart,   \* time since the last start of a job, up to minTime
    gap,          \* <<time between the two latest starts>>, <<>> before that
    started,      \* the tasks in the order the limiter started them
    evAccount,    \* the heuristics' inputs ...
    evTransactions,
    evHoneypot,   \* ... and their results, <<>> until computed
    evOwnership

limiterVars == <<job, queue, running, cooldown, sinceStart, gap, started>>
evVars == <<evAccount, evTransactions, evHoneypot, evOwnership>>
vars == <<world, req, limiterVars, evVars>>

(***************************************************************************)
(* The pure heuristics on their own: Init draws the inputs, the actions    *)
(* apply the functions.                                                    *)
(***************************************************************************)

NoJob == [st |-> "none", timer |-> 0, outcome |-> "none"]

LimiterInit ==
    /\ job = [t \in Tasks |-> NoJob]
    /\ queue = <<>>
    /\ running = 0
    /\ cooldown = 0
    /\ sinceStart = minTime
    /\ gap = <<>>
    /\ started = <<>>

EvalIdle ==
    /\ evAccount = Null
    /\ evTransactions = <<>>
    /\ evHoneypot = <<>>
    /\ evOwnership = <<>>

\* A promise of one of the three fetches: not made, pending on its network
\* call, fulfilled with value, or rejected with error; calls counts the
\* network calls it issued.
NoFetch(none) == [st |-> "none", value |-> none, error |-> "", calls |-> 0]
NoAnalysis == [st |-> "none", report |-> Null, error |-> ""]
IdleRequest ==
    [pc |-> "idle", address |-> "", symbol |-> "", replies |-> <<>>, log |-> <<>>,
     account |-> NoFetch(Null), transactions |-> NoFetch(<<>>), token |-> NoFetch(Null),
     analysis |-> NoAnalysis]

InitEval ==
    /\ evAccount \in {Null} \cup AccountInfos
    /\ evTransactions \in TxSeqs(TxTypes, MaxTxLen)
    /\ evHoneypot = <<>>
    /\ evOwnership = <<>>
    /\ world = QuietWorld
    /\ req = [r \in Requests |-> IdleRequest]
    /\ LimiterInit

EvalHoneypot ==
    /\ evHoneypot = <<>>
    /\ evHoneypot' = <<checkHoneypotLogic(evAccount, evTransactions)>>
    /\ UNCHANGED <<world, req, limiterVars, evAccount, evTransactions, evOwnership>>

EvalOwnership ==
    /\ evOwnership = <<>>
    /\ evOwnership' = <<checkOwnership(evAccount)>>
    /\ UNCHANGED <<world, req, limiterVars, evAccount, evTransactions, evHoneypot>>

NextEval == EvalHoneypot \/ EvalOwnership

SpecEval == InitEval /\ [][NextEval]_vars

(***************************************************************************)
(* The limiter: new Bottleneck({minTime, maxConcurrent}).  A scheduled     *)
(* task is queued; the head of the queue is registered while fewer than    *)
(* maxConcurrent jobs are registered and unfinished, and is given the wait *)
(* that puts its start minTime after the start last handed out; a timer    *)
(* starts it when the wait is over; it leaves when its promise settles.    *)
(* Time is kept relative to the present: Tick lets TimeStep units pass.    *)
(* A timer fires when it is due: no handler of the program blocks the      *)
(* event loop.                                                             *)
(***************************************************************************)

\* limiter.schedule(task) putting the job at the front of the queue.
LimSubmitFront(t) ==
    /\ job[t].st = "none"
    /\ job' = [job EXCEPT ![t].st = "queued"]
    /\ queue' = <<t>> \o queue
    /\ UNCHANGED <<running, cooldown, sinceStart, gap, started>>

\* limiter.schedule(task): the job joins the queue.
LimSubmit(t) ==
    /\ job[t].st = "none"
    /\ job' = [job EXCEPT ![t].st = "queued"]
    /\ queue' = Append(queue, t)
    /\ UNCHANGED <<running, cooldown, sinceStart, gap, started>>

\* A limiter that admits one job more than configured.
CapacityOffByOne == maxConcurrent + 1

\* The jobs the limiter may hold registered and unfinished.
Capacity == maxConcurrent

\* A limiter configured with minTime: 30.
ShortSpacing == minTime \div 10

\* The time between the starts the limiter hands out.
Spacing == minTime

\* The queue's head is registered: it counts as running from now on and its
\* start is set no earlier than minTime after the previous one.
Register ==
    /\ queue # <<>>
    /\ running < Capacity
    /\ LET t == Head(queue)
           wait == cooldown
       IN /\ job' = [job EXCEPT ![t].st = "scheduled", ![t].timer = wait]
          /\ cooldown' = wait + Spacing
    /\ queue' = Tail(queue)
    /\ running' = running + 1
    /\ UNCHANGED <<world, req, sinceStart, gap, started, evVars>>

\* The job's timer fires: the task is called.
LimStart(t) ==
    /\ job[t].st = "scheduled"
    /\ job[t].timer = 0
    /\ job' = [job EXCEPT ![t].st = "executing"]
    /\ gap' = IF started = <<>> THEN <<>> ELSE <<sinceStart>>
    /\ sinceStart' = 0
    /\ started' = Append(started, t)
    /\ UNCHANGED <<queue, running, cooldown>>

\* A limiter that frees the slot of a fulfilled task only.
LimFreeFulfilled(t, outcome) ==
    /\ job[t].st = "executing"
    /\ job' = [job EXCEPT ![t].st = "done", ![t].outcome = outcome]
    /\ running' = IF outcome = "fulfilled" THEN running - 1 ELSE running
    /\ UNCHANGED <<queue, cooldown, sinceStart, gap, started>>

\* The task's promise settled: the job is done and its slot is free.
LimFree(t, outcome) ==
    /\ job[t].st = "executing"
    /\ job' = [job EXCEPT ![t].st = "done", ![t].outcome = outcome]
    /\ running' = running - 1
    /\ UNCHANGED <<queue, cooldown, sinceStart, gap, started>>

\* The task is called and its promise settles at once.
LimStartAndFree(t, outcome) ==
    /\ job[t].st = "scheduled"
    /\ job[t].timer = 0
    /\ job' = [job EXCEPT ![t].st = "done", ![t].outcome = outcome]
    /\ gap' = IF started = <<>> THEN <<>> ELSE <<sinceStart>>
    /\ sinceStart' = 0
    /\ started' = Append(started, t)
    /\ running' = running - 1
    /\ UNCHANGED <<queue, cooldown>>

\* TimeStep units of time pass; no due timer is passed over.
Tick ==
    /\ \A t \in Tasks : job[t].st = "scheduled" => job[t].timer > 0
    /\ cooldown > 0 \/ sinceStart < minTime
    /\ job' = [t \in Tasks |->
                 IF job[t].st = "scheduled"
                 THEN [job[t] EXCEPT !.timer = Max(job[t].timer - TimeStep, 0)]
                 ELSE job[t]]
    /\ cooldown' = Max(cooldown - TimeStep, 0)
    /\ sinceStart' = Min(sinceStart + TimeStep, minTime)
    /\ UNCHANGED <<world, req, queue, running, gap, started, evVars>>

(***************************************************************************)
(* The limiter under tasks of any kind: NumTasks tasks are scheduled, each *)
(* settles, fulfilled or rejected, at some time after its start or never.  *)
(***************************************************************************)

InitLimiter ==
    /\ LimiterInit
    /\ EvalIdle
    /\ world = QuietWorld
    /\ req = [r \in Requests |-> IdleRequest]

Schedule(t) ==
    /\ t \in 1..NumTasks
    /\ \A u \in 1..(t - 1) : job[u].st # "none"
    /\ LimSubmit(t)
    /\ UNCHANGED <<world, req, evVars>>

Execute(t) ==
    /\ LimStart(t)
    /\ UNCHANGED <<world, req, evVars>>

Settle(t, outcome) ==
    /\ LimFree(t, outcome)
    /\ UNCHANGED <<world, req, evVars>>

NextLimiter ==
    \/ \E t \in Tasks : Schedule(t)
    \/ Register
    \/ \E t \in Tasks : Execute(t)
    \/ \E t \in Tasks, outcome \in {"fulfilled", "rejected"} : Settle(t, outcome)
    \/ Tick

SpecLimiter == InitLimiter /\ [][NextLimiter]_vars

\* The limiter when the tasks called settle, one after another, as long as
\* any is running: the event loop runs what is ready (registration, due
\* timers) and time passes.
SpecLimiterFair ==
    /\ SpecLimiter
    /\ WF_vars(Register)
    /\ WF_vars(Tick)
    /\ WF_vars(\E t \in Tasks : Execute(t))
    /\ WF_vars(\E t \in Tasks, outcome \in {"fulfilled", "rejected"} : Settle(t, outcome))

(***************************************************************************)
(* The fetches.  Each is the function from the network's response to the   *)
(* promise's outcome: ok with the value returned, or not ok with the cause *)
(* the catch block logs.                                                   *)
(***************************************************************************)

Ok(v) == [ok |-> TRUE, value |-> v, cause |-> ""]
NotOk(none, cause) == [ok |-> FALSE, value |-> none, cause |-> cause]

\* The messages of the errors bot.js throws.
AccountNotFound == "Account not found"
TokenNotFound == "Token not found."
AccountFailed == "Failed to fetch account info."
TransactionsFailed == "Failed to fetch transactions."
TokenFailed == "Failed to retrieve token info."
AnalysisFailed == "Analysis failed. Check the token address and symbol."

\* What the network may answer to the three calls.
AccountResponses == {Value(world.account), Failure(TransportMessage)}
SignaturesResponses ==
    {Value(SubSeq(world.history, 1, Min(Len(world.history), SignatureLimit))),
     Failure(TransportMessage)}
MarketListing(ids) == IF ids = "solana" THEN world.listing ELSE <<>>
MarketResponses(ids) == {Value(MarketListing(ids)), Failure(TransportMessage)}

\* getAccountInfo after connection.getAccountInfo answered.
getAccountInfo(resp) ==
    IF resp.err THEN NotOk(Null, resp.message)
    ELSE IF resp.value = Null THEN NotOk(Null, AccountNotFound)
    ELSE Ok([owner |-> resp.value.owner, lamports |-> resp.value.lamports])

\* getTokenTransactions typing a signature without error as incoming.
TxTypeReceive(err) == IF err THEN "failed" ELSE "receive"

\* The type getTokenTransactions gives a signature.
TxType(err) == IF err THEN "failed" ELSE "confirmed"

\* getTokenTransactions throwing on an address without history.
getTokenTransactionsStrict(resp) ==
    IF resp.err THEN NotOk(<<>>, resp.message)
    ELSE IF Len(resp.value) = 0 THEN NotOk(<<>>, "No transactions found")
    ELSE Ok([i \in 1..Len(resp.value) |->
                [txId |-> resp.value[i].signature, type |-> TxType(resp.value[i].err)]])

\* getTokenTransactions after getConfirmedSignaturesForAddress2 answered.
getTokenTransactions(resp) ==
    IF resp.err THEN NotOk(<<>>, resp.message)
    ELSE Ok([i \in 1..Len(resp.value) |->
                [txId |-> resp.value[i].signature, type |-> TxType(resp.value[i].err)]])

\* Number.prototype.toLocaleString(): the digits in groups of three.
RECURSIVE toLocaleString(_)
toLocaleString(n) ==
    IF n < 1000 THEN <<n>> ELSE Append(toLocaleString(n \div 1000), n % 1000)

\* getTokenInfo reading response.data[0] without looking at its length.
getTokenInfoUnchecked(resp) ==
    IF resp.err THEN NotOk(Null, resp.message)
    ELSE IF Len(resp.value) = 0
    THEN NotOk(Null, "Cannot read properties of undefined (reading 'name')")
    ELSE LET token == resp.value[1]
         IN IF token.market_cap = JsonNull THEN NotOk(Null, NullCapMessage)
            ELSE Ok([name |-> token.name,
                     symbol |-> token.symbol,
                     price |-> <<"$", token.current_price>>,
                     marketCap |-> <<"$", toLocaleString(token.market_cap)>>])

\* getTokenInfo after axios.get answered.
getTokenInfo(resp) ==
    IF resp.err THEN NotOk(Null, resp.message)
    ELSE IF Len(resp.value) = 0 THEN NotOk(Null, TokenNotFound)
    ELSE LET token == resp.value[1]
         IN IF token.market_cap = JsonNull THEN NotOk(Null, NullCapMessage)
            ELSE Ok([name |-> token.name,
                     symbol |-> token.symbol,
                     price |-> <<"$", token.current_price>>,
                     marketCap |-> <<"$", toLocaleString(token.market_cap)>>])

\* A line of the log.
Line(level, message) == [level |-> level, message |-> message]

\* A fetch that is called once more after its first failure.
RejectedRetries(f, message) ==
    IF f.calls < 2 THEN [f EXCEPT !.st = "pending", !.calls = @ + 1]
    ELSE [f EXCEPT !.st = "failed", !.error = message]

\* A promise in its states.
Pending(f) == [f EXCEPT !.st = "pending", !.calls = @ + 1]
Fulfilled(f, v) == [f EXCEPT !.st = "ok", !.value = v]
Rejected(f, message) == [f EXCEPT !.st = "failed", !.error = message]

(***************************************************************************)
(* analyzeToken and the /check handler                                     *)
(***************************************************************************)

\* transactions.slice(0, 5) with the slice taken from the other end.
RecentOfLast(transactions) ==
    SubSeq(transactions, Max(Len(transactions) - ReportLimit, 0) + 1, Len(transactions))

\* transactions.slice(0, 5)
RecentOf(transactions) ==
    SubSeq(transactions, 1, Min(Len(transactions), ReportLimit))

\* The object analyzeToken returns.
Report(accountInfo, transactions, tokenDetails) ==
    [honeypot |-> honeypotLabel(checkHoneypotLogic(accountInfo, transactions)),
     ownership |-> checkOwnership(accountInfo),
     tokenDetails |-> tokenDetails,
     transactions |-> RecentOf(transactions)]

\* The catch block of analyzeToken throwing the error it caught.
RethrownMessage(message) == message

\* The message of the error analyzeToken throws, whatever it caught.
ThrownMessage(message) == AnalysisFailed

\* Promise.all that waits for the address' two fetches only.
AllOfAddress(q) == q.account.st = "ok" /\ q.transactions.st = "ok"

\* Promise.all has all three values.
AllOk(q) == q.account.st = "ok" /\ q.transactions.st = "ok" /\ q.token.st = "ok"

\* analyzeToken keeping the transactions in a variable of the module, which
\* the first request's fetch fills.
JoinShared(q, rejection) ==
    IF q.analysis.st # "pending" THEN q
    ELSE IF rejection # ""
    THEN [q EXCEPT !.analysis = [st |-> "failed", report |-> Null,
                                 error |-> ThrownMessage(rejection)],
                   !.log = Append(@, Line("error", <<"Error analyzing token: ", rejection>>))]
    ELSE IF AllOk(q)
    THEN [q EXCEPT !.analysis = [st |-> "ok", error |-> "",
                                 report |-> Report(q.account.value, req[1].transactions.value,
                                                   q.token.value)]]
    ELSE q

\* The try block of analyzeToken after one of its fetches settled, rejected
\* with message rejection or fulfilled (rejection = ""): Promise.all rejects
\* with the first rejection and fulfils with the last value; what settles
\* after that is dropped.
Join(q, rejection) ==
    IF q.analysis.st # "pending" THEN q
    ELSE IF rejection # ""
    THEN [q EXCEPT !.analysis = [st |-> "failed", report |-> Null,
                                 error |-> ThrownMessage(rejection)],
                   !.log = Append(@, Line("error", <<"Error analyzing token: ", rejection>>))]
    ELSE IF AllOk(q)
    THEN [q EXCEPT !.analysis = [st |-> "ok", error |-> "",
                                 report |-> Report(q.account.value, q.transactions.value,
                                                   q.token.value)]]
    ELSE q

formatTransactions(transactions) ==
    IF Len(transactions) = 0 THEN <<"No recent transactions.">>
    ELSE [i \in 1..Len(transactions) |-> <<i, ". TxID: ", transactions[i].txId>>]

\* A handler without its catch block: a failed analysis is logged by the
\* framework and the user is sent nothing.
AnswerOnSuccess(q) ==
    IF q.analysis.st = "ok"
    THEN [q EXCEPT !.pc = "done",
                   !.replies = Append(@, [kind |-> "report",
                                          honeypot |-> q.analysis.report.honeypot,
                                          ownership |-> q.analysis.report.ownership,
                                          tokenDetails |-> q.analysis.report.tokenDetails,
                                          transactions |->
                                              formatTransactions(q.analysis.report.transactions)]),
                   !.log = Append(@, Line("info", <<"Analysis completed for token: ", q.symbol,
                                                    ", address: ", q.address>>))]
    ELSE [q EXCEPT !.pc = "done",
                   !.log = Append(@, Line("error", <<"Unhandled error while processing ",
                                                     q.address>>))]

\* The handler after limiter.schedule settled: the final reply and its log.
Answer(q) ==
    IF q.analysis.st = "ok"
    THEN [q EXCEPT !.pc = "done",
                   !.replies = Append(@, [kind |-> "report",
                                          honeypot |-> q.analysis.report.honeypot,
                                          ownership |-> q.analysis.report.ownership,
                                          tokenDetails |-> q.analysis.report.tokenDetails,
                                          transactions |->
                                              formatTransactions(q.analysis.report.transactions)]),
                   !.log = Append(@, Line("info", <<"Analysis completed for token: ", q.symbol,
                                                    ", address: ", q.address>>))]
    ELSE [q EXCEPT !.pc = "done",
                   !.replies = Append(@, [kind |-> "error", message |-> q.analysis.error]),
                   !.log = Append(@, Line("error", <<"Error during analysis for token: ", q.symbol,
                                                     ", address: ", q.address>>))]

\* The words of the messages users send.
Texts ==
    {<<"/check">>, <<"/check", WellFormed>>}
        \cup {<<"/check", a, s>> : a \in Addresses, s \in Symbols}

\* bot.command('check') up to its await: the usage reply, or the
\* acknowledgement and limiter.schedule.  Requests are numbered as they come.
Check(r, text) ==
    /\ req[r].pc = "idle"
    /\ \A u \in DOMAIN req : u < r => req[u].pc # "idle"
    /\ LET args == Tail(text)
       IN IF Len(args) < 2
          THEN /\ req' = [req EXCEPT ![r].pc = "done",
                                     ![r].replies = Append(@, [kind |-> "usage"])]
               /\ UNCHANGED limiterVars
          ELSE /\ req' = [req EXCEPT ![r].pc = "awaiting",
                                     ![r].address = args[1],
                                     ![r].symbol = args[2],
                                     ![r].replies = Append(@, [kind |-> "ack"])]
               /\ LimSubmit(r)
    /\ UNCHANGED <<world, evVars>>

\* After a fetch of request r settled, leaving it as q: if that settled the
\* analysis, the limiter frees the job and the handler answers.
Conclude(r, q) ==
    /\ IF q.analysis.st # req[r].analysis.st
       THEN /\ req' = [req EXCEPT ![r] = Answer(q)]
            /\ LimFree(r, IF q.analysis.st = "ok" THEN "fulfilled" ELSE "rejected")
       ELSE /\ req' = [req EXCEPT ![r] = q]
            /\ UNCHANGED limiterVars
    /\ UNCHANGED <<world, evVars>>

\* The limiter calls analyzeToken(address, symbol): the three fetches are
\* called in turn.  new PublicKey(address) throws in the first two on a
\* malformed address, before any call to the node; getTokenInfo issues its
\* call in either case.
Start(r) ==
    /\ r \in DOMAIN req
    /\ req[r].pc = "awaiting"
    /\ LET q == req[r]
           begun == [q EXCEPT !.analysis.st = "pending", !.token = Pending(@)]
       IN IF IsPublicKey(q.address)
          THEN /\ req' = [req EXCEPT ![r] = [begun EXCEPT !.account = Pending(@),
                                                          !.transactions = Pending(@)]]
               /\ LimStart(r)
          ELSE LET thrown ==
                       [begun EXCEPT
                          !.account = Rejected(@, AccountFailed),
                          !.transactions = Rejected(@, TransactionsFailed),
                          !.log = @ \o
                              <<Line("error", <<"Error fetching account info for ",
                                                q.address, ": ", InvalidKey>>),
                                Line("error", <<"Error fetching transactions for ",
                                                q.address, ": ", InvalidKey>>)>>]
               IN /\ req' = [req EXCEPT ![r] = Answer(Join(thrown, AccountFailed))]
                  /\ LimStartAndFree(r, "rejected")
    /\ UNCHANGED <<world, evVars>>

\* connection.getAccountInfo answers.
AccountSettles(r) ==
    /\ req[r].account.st = "pending"
    /\ \E resp \in AccountResponses :
         LET out == getAccountInfo(resp)
             q == req[r]
         IN IF out.ok
            THEN Conclude(r, Join([q EXCEPT !.account = Fulfilled(@, out.value)], ""))
            ELSE Conclude(r, Join([q EXCEPT !.account = Rejected(@, AccountFailed),
                                            !.log = Append(@, Line("error",
                                                <<"Error fetching account info for ",
                                                  q.address, ": ", out.cause>>))],
                                  AccountFailed))

\* connection.getConfirmedSignaturesForAddress2 answers.
TransactionsSettle(r) ==
    /\ req[r].transactions.st = "pending"
    /\ \E resp \in SignaturesResponses :
         LET out == getTokenTransactions(resp)
             q == req[r]
         IN IF out.ok
            THEN Conclude(r, Join([q EXCEPT !.transactions = Fulfilled(@, out.value)], ""))
            ELSE Conclude(r, Join([q EXCEPT !.transactions = Rejected(@, TransactionsFailed),
                                            !.log = Append(@, Line("error",
                                                <<"Error fetching transactions for ",
                                                  q.address, ": ", out.cause>>))],
                                  TransactionsFailed))

\* axios.get answers.
TokenSettles(r) ==
    /\ req[r].token.st = "pending"
    /\ \E resp \in MarketResponses(toLowerCase(req[r].symbol)) :
         LET out == getTokenInfo(resp)
             q == req[r]
         IN IF out.ok
            THEN Conclude(r, Join([q EXCEPT !.token = Fulfilled(@, out.value)], ""))
            ELSE Conclude(r, Join([q EXCEPT !.token = Rejected(@, TokenFailed),
                                            !.log = Append(@, Line("error",
                                                <<"Error fetching token info: ", out.cause>>))],
                                  TokenFailed))

\* The steps of the bot, its users' messages drawn from texts.
NextOn(texts) ==
    \/ \E r \in Requests, text \in texts : Check(r, text)
    \/ Register
    \/ \E r \in Requests : Start(r)
    \/ \E r \in Requests : AccountSettles(r)
    \/ \E r \in Requests : TransactionsSettle(r)
    \/ \E r \in Requests : TokenSettles(r)
    \/ Tick

\* The bot serving NumRequests messages at once, each short of an argument
\* or naming an address and the listed symbol.
BotTexts ==
    {<<"/check", WellFormed>>, <<"/check", WellFormed, "Solana">>,
     <<"/check", Malformed, "Solana">>}
BotWorld ==
    [account |-> [owner |-> SystemProgram, lamports |-> 0],
     history |-> History(2, "even"),
     listing |-> <<SolanaEntry(71234567)>>]

Init ==
    /\ world = BotWorld
    /\ req = [r \in Requests |-> IdleRequest]
    /\ LimiterInit
    /\ EvalIdle

Next == NextOn(BotTexts)

Spec == Init /\ [][Next]_vars

\* A message short of an argument, answered.
UsageAnswered == [IdleRequest EXCEPT !.pc = "done", !.replies = <<[kind |-> "usage"]>>]

\* The last two messages are served at once; every message before them was
\* answered with the usage line.
InitPair ==
    /\ world = BotWorld
    /\ req = [r \in Requests |-> IF r + 2 <= NumRequests THEN UsageAnswered ELSE IdleRequest]
    /\ LimiterInit
    /\ EvalIdle

\* The bot when every network call is answered at some time: the event loop
\* runs what is ready (registration, due timers) and time passes.
SpecFair ==
    /\ InitPair
    /\ [][Next]_vars
    /\ WF_vars(Register)
    /\ WF_vars(Tick)
    /\ \A r \in Requests :
         /\ WF_vars(Start(r))
         /\ WF_vars(AccountSettles(r))
         /\ WF_vars(TransactionsSettle(r))
         /\ WF_vars(TokenSettles(r))

\* More messages than the limiter has slots, all naming a well-formed address
\* and the listed symbol, while the node answers for the account only: its
\* signatures call and the market's call are never answered.
HangText == <<"/check", WellFormed, "Solana">>

InitHang ==
    /\ world = BotWorld
    /\ req = [r \in Tasks |-> IdleRequest]
    /\ LimiterInit
    /\ EvalIdle

NextHang ==
    \/ \E r \in Tasks : Check(r, HangText)
    \/ Register
    \/ \E r \in Tasks : Start(r)
    \/ \E r \in Tasks : AccountSettles(r)
    \/ Tick

SpecHang ==
    /\ InitHang
    /\ [][NextHang]_vars
    /\ WF_vars(Register)
    /\ WF_vars(Tick)
    /\ WF_vars(\E r \in Tasks : Start(r))
    /\ WF_vars(\E r \in Tasks : AccountSettles(r))

\* One analysis, of any message in any world: every message but the last
\* was answered with the usage line.
InitAnalyze ==
    /\ world \in Worlds
    /\ req = [r \in Requests |-> IF r < NumRequests THEN UsageAnswered ELSE IdleRequest]
    /\ LimiterInit
    /\ EvalIdle

NextAnalyze == NextOn(Texts)

SpecAnalyze == InitAnalyze /\ [][NextAnalyze]_vars

(***************************************************************************)
(* Properties                                                              *)
(***************************************************************************)

FetchNames == {"account", "transactions", "token"}

\* The fetches of request r in state st.
FetchesIn(r, st) == {f \in FetchNames : req[r][f].st = st}

\* The network calls in flight, over all requests.
OutboundCalls == {<<r, f>> \in Requests \X FetchNames : req[r][f].st = "pending"}

\* The causes the log of request r records.
Causes(r) == {req[r].log[i].message[Len(req[r].log[i].message)] : i \in 1..Len(req[r].log)}

\* The final replies request r received.
Finals(r) ==
    {i \in 1..Len(req[r].replies) : req[r].replies[i].kind \in {"report", "error"}}

\* C1: if at least one of the three fetches of an analysis failed, the
\* analysis has returned an error and no report, and the caller has been sent
\* no report; a report exists only when all three fetches succeeded, and all
\* four of its fields are then populated.
C1_NoPartialReport ==
    \A r \in Requests :
        LET a == req[r].analysis
        IN /\ FetchesIn(r, "failed") # {} =>
                /\ a.st = "failed"
                /\ a.error # ""
                /\ a.report = Null
                /\ \A i \in Finals(r) : req[r].replies[i].kind = "error"
           /\ (a.st = "ok" \/ a.report # Null) =>
                /\ FetchesIn(r, "ok") = FetchNames
                /\ a.st = "ok"
                /\ a.report.honeypot \in {HighRisk, NoneDetected}
                /\ a.report.ownership
                       \in {OwnershipCentralized} \cup {OwnershipOwner(o) : o \in Owners}
                /\ a.report.tokenDetails = req[r].token.value
                /\ a.report.tokenDetails # Null
                /\ DOMAIN a.report = {"honeypot", "ownership", "tokenDetails", "transactions"}
                /\ a.report.transactions \in Seq([txId : 1..MaxHistory, type : FetchedTypes])

\* C1's case: two fetches succeeded, then the third failed.
C1_Witness ==
    \E r \in Requests :
        /\ FetchesIn(r, "ok") = {"account", "transactions"}
        /\ req[r].token.st = "failed"
        /\ req[r].analysis.st = "failed"

\* C2: every fetch is admitted through the limiter on its own, so at most 5
\* network calls are in flight at any time, over all requests.
C2_AtMostFiveCalls == Cardinality(OutboundCalls) <= 5

\* The jobs whose task has started and not settled.
Executing == {t \in Tasks : job[t].st = "executing"}

\* C3: whatever the number of tasks scheduled, at most 5 of them have started
\* and not yet settled.
C3_AtMostFiveExecuting == Cardinality(Executing) <= 5

\* C3's case: five tasks execute and a scheduled one waits in the queue.
C3_Witness == Cardinality(Executing) = 5 /\ queue # <<>>

\* C4: the start of a task is at least 300 time units after the start of
\* the task started before it.
C4_StartsSpaced == gap = <<>> \/ gap[1] >= 300

\* C4's case: a task starts after two others, of which one has finished and
\* one still executes.
C4_Witness ==
    /\ gap # <<>>
    /\ Len(started) >= 3
    /\ sinceStart = 0
    /\ \E t, u \in Tasks : job[t].st = "done" /\ job[u].st = "executing" /\ t # u
                           /\ u # started[Len(started)]

\* Some record of the evaluated sequence is not of the incoming-only type.
SomeNotReceive == \E i \in 1..Len(evTransactions) : evTransactions[i].type # "receive"

\* C5: checkHoneypotLogic answers high risk (true) whenever accountInfo is
\* absent or the transaction sequence is empty.
C5_AbsentOrEmptyIsHighRisk ==
    (evHoneypot # <<>> /\ (evAccount = Null \/ Len(evTransactions) = 0))
        => evHoneypot = <<TRUE>>

\* C5's cases: the heuristic has answered for an absent accountInfo with a
\* sequence holding a confirmed transaction.
C5_Witness ==
    /\ evHoneypot # <<>>
    /\ evAccount = Null
    /\ Len(evTransactions) > 0
    /\ evTransactions[1].type = "confirmed"

\* C6 as claimed: for every transaction sequence, high risk if every record
\* is incoming-only, none detected if at least one is not.
C6_AsClaimed ==
    evHoneypot # <<>> =>
        /\ ~SomeNotReceive => evHoneypot = <<TRUE>>
        /\ SomeNotReceive => evHoneypot = <<FALSE>>

\* C6 as amended: high risk if every record is incoming-only; none detected
\* if at least one is not and accountInfo is present.
C6_Amended ==
    evHoneypot # <<>> =>
        /\ ~SomeNotReceive => evHoneypot = <<TRUE>>
        /\ (SomeNotReceive /\ evAccount # Null) => evHoneypot = <<FALSE>>

\* C6's case: the heuristic has answered none detected for a present
\* accountInfo and a sequence mixing incoming-only records with others.
C6_Witness ==
    /\ evHoneypot = <<FALSE>>
    /\ evAccount # Null
    /\ \E i, j \in 1..Len(evTransactions) :
           evTransactions[i].type = "receive" /\ evTransactions[j].type # "receive"

\* C7: checkOwnership answers for every accountInfo, with exactly one of its
\* three results: unknown for an absent accountInfo, centralized for the
\* system program as owner, the owner's identity for any other owner.
C7_OwnershipTotal ==
    evOwnership # <<>> =>
        /\ evAccount = Null => evOwnership[1] = OwnershipUnknown
        /\ (evAccount # Null /\ evAccount.owner = "11111111111111111111111111111111")
               => evOwnership[1] = OwnershipCentralized
        /\ (evAccount # Null /\ evAccount.owner # "11111111111111111111111111111111")
               => evOwnership[1] = OwnershipOwner(evAccount.owner)
        /\ evOwnership[1] \in {OwnershipUnknown, OwnershipCentralized}
                                  \cup {OwnershipOwner(o) : o \in Owners \ {SystemProgram}}

\* C7's case: the system program owns the account classified.
C7_Witness ==
    /\ evOwnership # <<>>
    /\ evAccount # Null
    /\ evAccount.owner = SystemProgram

\* C8: the transactions of a report are at most 5 and are the first
\* min(5, n) of the n <= 10 records getTokenTransactions returned, in order.
C8_FirstFive ==
    \A r \in Requests :
        req[r].analysis.st = "ok" =>
            LET fetched == req[r].transactions.value
                recent == req[r].analysis.report.transactions
            IN /\ Len(fetched) <= 10
               /\ Len(recent) <= 5
               /\ Len(recent) = (IF Len(fetched) < 5 THEN Len(fetched) ELSE 5)
               /\ \A i \in 1..Len(recent) : recent[i] = fetched[i]

\* C8's case: a report made of ten fetched transactions.
C8_Witness ==
    \E r \in Requests :
        /\ req[r].analysis.st = "ok"
        /\ Len(req[r].transactions.value) = 10
        /\ Len(world.history) > 10

\* C9: a failed analysis hands its caller the one generic error, whichever
\* fetch failed and whatever the cause; the reply carries that message.
C9_GenericError ==
    \A r \in Requests :
        req[r].analysis.st = "failed" =>
            /\ req[r].analysis.error = "Analysis failed. Check the token address and symbol."
            /\ \A i \in Finals(r) :
                   req[r].replies[i] =
                       [kind |-> "error",
                        message |-> "Analysis failed. Check the token address and symbol."]

\* C9's case: an analysis failed because the market provider lists no such
\* token, the account having been fetched.
C9_Witness ==
    \E r \in Requests :
        /\ req[r].analysis.st = "failed"
        /\ req[r].account.st = "ok"
        /\ TokenNotFound \in Causes(r)
        /\ Finals(r) # {}

\* Request r asked for an existing account without history and a listed
\* token, and the network answered all three calls.
NoHistoryAnswered(r) ==
    /\ IsPublicKey(req[r].address)
    /\ world.account # Null
    /\ world.history = <<>>
    /\ Len(MarketListing(toLowerCase(req[r].symbol))) > 0
    /\ MarketListing(toLowerCase(req[r].symbol))[1].market_cap # JsonNull
    /\ FetchesIn(r, "ok") \cup FetchesIn(r, "failed") = FetchNames
    /\ TransportMessage \notin Causes(r)

\* C10: for an existing address without history and a valid symbol,
\* getTokenTransactions succeeds with the empty sequence and the analysis
\* returns a report: high risk, ownership by the account's owner, no
\* transactions.
C10_NoHistoryReport ==
    \A r \in Requests :
        NoHistoryAnswered(r) =>
            /\ req[r].transactions.st = "ok"
            /\ req[r].transactions.value = <<>>
            /\ req[r].analysis.st = "ok"
            /\ req[r].analysis.report.honeypot = HighRisk
            /\ req[r].analysis.report.ownership =
                   (IF world.account.owner = SystemProgram
                    THEN OwnershipCentralized
                    ELSE OwnershipOwner(world.account.owner))
            /\ req[r].analysis.report.transactions = <<>>

\* C10's case: such a request, answered.
C10_Witness ==
    \E r \in Requests :
        /\ NoHistoryAnswered(r)
        /\ world.account.owner # SystemProgram
        /\ \E i \in Finals(r) : req[r].replies[i].kind = "report"

\* The network calls request r has issued so far.
CallsOf(r) == req[r].account.calls + req[r].transactions.calls + req[r].token.calls

\* C11: a request with a malformed address fails on validation before any
\* network call: no call to the chain node or to the market provider is
\* issued for it.
C11_NoCallOnMalformed ==
    \A r \in Requests :
        (req[r].pc # "idle" /\ req[r].address # "" /\ ~IsPublicKey(req[r].address))
            => /\ CallsOf(r) = 0
               /\ req[r].analysis.st \in {"none", "failed"}

\* C12: tasks start in the order they were scheduled (tasks are numbered as
\* they are scheduled): when a task has started, every task scheduled before
\* it started earlier.
C12_StartsInOrder ==
    \A i \in 1..Len(started) :
        \A u \in Tasks :
            u < started[i] => \E j \in 1..(i - 1) : started[j] = u

\* C12's case: six tasks have started, the sixth after waiting in the queue
\* for one of the five before it to settle.
C12_Witness ==
    /\ Len(started) = 6
    /\ \E t \in Tasks : job[t].st = "done"
    /\ \E t \in Tasks : job[t].st = "executing"

\* C13: an analysis does not settle, and its limiter slot is not released,
\* before all three of its fetches have settled: no analysis has returned to
\* its caller while one of its own network calls is in flight.
C13_SettlesAfterItsCalls ==
    \A r \in Requests :
        (req[r].analysis.st \in {"ok", "failed"} \/ job[r].st = "done")
            => FetchesIn(r, "pending") = {}

\* C14: a rejected task frees its slot as a fulfilled one does: whatever has
\* been rejected, the tasks that wait are all started again and again, none
\* being left in the queue or on its timer for ever, provided the tasks
\* called settle; and no step changes the outcome of a settled task.
C14_FailureFreesSlot ==
    /\ []<>(\A t \in Tasks : job[t].st \notin {"queued", "scheduled"})
    /\ [][\A t \in Tasks : job[t].outcome # "none" => job'[t].outcome = job[t].outcome]_vars

\* C14's case: the sixth task has started and every task settled before it
\* was rejected, so that its slot was freed by a failure.
C14_Witness ==
    /\ Len(started) = 6
    /\ \E t \in Tasks : job[t].outcome = "rejected"
    /\ \A t \in Tasks : job[t].outcome # "fulfilled"

\* What may have made a fetch of request r fail, from what the network holds.
AccountCauses(r) ==
    IF ~IsPublicKey(req[r].address) THEN {InvalidKey}
    ELSE {TransportMessage} \cup (IF world.account = Null THEN {AccountNotFound} ELSE {})
TransactionsCauses(r) ==
    IF ~IsPublicKey(req[r].address) THEN {InvalidKey} ELSE {TransportMessage}
TokenCauses(r) ==
    LET listing == MarketListing(toLowerCase(req[r].symbol))
    IN {TransportMessage}
           \cup (IF Len(listing) = 0 THEN {TokenNotFound}
                 ELSE IF listing[1].market_cap = JsonNull THEN {NullCapMessage} ELSE {})

\* The log lines that record the cause of the fetch whose failure is
\* reported with the message generic.
CauseLines(r, generic) ==
    IF generic = AccountFailed
    THEN {Line("error", <<"Error fetching account info for ", req[r].address, ": ", c>>) :
              c \in AccountCauses(r)}
    ELSE IF generic = TransactionsFailed
    THEN {Line("error", <<"Error fetching transactions for ", req[r].address, ": ", c>>) :
              c \in TransactionsCauses(r)}
    ELSE IF generic = TokenFailed
    THEN {Line("error", <<"Error fetching token info: ", c>>) : c \in TokenCauses(r)}
    ELSE {}

\* The places of the log of request r whose line begins with head.
LinesOf(r, head) == {i \in 1..Len(req[r].log) : req[r].log[i].message[1] = head}

\* C15: when the analysis failed, the log holds the line of the analysis'
\* failure once, naming a failed fetch; the line with that fetch's own cause
\* (token not found, account not found, the transport's error, ...) stands
\* before it, and the handler's error line and error reply come after both.
C15_CauseLoggedFirst ==
    \A r \in Requests :
        req[r].analysis.st = "failed" =>
            /\ Cardinality(LinesOf(r, "Error analyzing token: ")) = 1
            /\ \A j \in LinesOf(r, "Error analyzing token: ") :
                 /\ \E i \in 1..(j - 1) :
                      req[r].log[i] \in CauseLines(r, req[r].log[j].message[2])
                 /\ \A k \in LinesOf(r, "Error during analysis for token: ") : k > j
                 /\ (\E m \in 1..Len(req[r].replies) : req[r].replies[m].kind = "error")
                        => LinesOf(r, "Error during analysis for token: ") # {}

\* C15's case: the market listed nothing for the symbol, the analysis failed
\* for it and the caller has its error.
C15_Witness ==
    \E r \in Requests :
        /\ req[r].analysis.st = "failed"
        /\ req[r].pc = "done"
        /\ Line("error", <<"Error fetching token info: ", TokenNotFound>>)
               \in {req[r].log[i] : i \in 1..Len(req[r].log)}
        /\ Line("error", <<"Error analyzing token: ", TokenFailed>>)
               \in {req[r].log[i] : i \in 1..Len(req[r].log)}

\* The heads of the lines the three fetches log when they fail.
FetchErrorHeads ==
    {"Error fetching account info for ", "Error fetching transactions for ",
     "Error fetching token info: "}

\* C16: in one analysis no fetch issues more than one network call or fails
\* more than once, and an analysis with a failed fetch has failed.
C16_NoRetries ==
    \A r \in Requests :
        /\ \A f \in FetchNames : req[r][f].calls <= 1
        /\ \A head \in FetchErrorHeads : Cardinality(LinesOf(r, head)) <= 1
        /\ FetchesIn(r, "failed") # {} => req[r].analysis.st = "failed"

\* C16's case: one fetch failed on the one call it made, the other two were
\* not called again, and the analysis has failed.
C16_Witness ==
    \E r \in Requests :
        /\ req[r].transactions.st = "failed"
        /\ \A f \in FetchNames : req[r][f].calls = 1
        /\ req[r].analysis.st = "failed"
        /\ req[r].pc = "done"

\* C17: whatever the other analyses do, a settled analysis has the outcome
\* its own three fetch results give: the report computed from its own three
\* values when they all came, the generic error when one of its own fetches
\* failed, and nothing else.
C17_OwnResultsOnly ==
    \A r \in Requests :
        LET q == req[r]
        IN /\ q.analysis.st = "ok" =>
                /\ FetchesIn(r, "ok") = FetchNames
                /\ q.analysis.report
                       = Report(q.account.value, q.transactions.value, q.token.value)
           /\ q.analysis.st = "failed" =>
                /\ FetchesIn(r, "failed") # {}
                /\ q.analysis.error = AnalysisFailed
                /\ q.analysis.report = Null
           /\ (q.analysis.st = "pending" /\ FetchesIn(r, "failed") = {}) =>
                FetchesIn(r, "pending") # {}

\* C17's case: two analyses ran at once and their fetches came in turns; one
\* has returned its report while the other, with a fetch of its own failed
\* in between, has returned the error.
C17_Witness ==
    \E r, u \in Requests :
        /\ r # u
        /\ IsPublicKey(req[r].address) /\ IsPublicKey(req[u].address)
        /\ req[r].analysis.st = "ok"
        /\ req[u].analysis.st = "failed"
        /\ req[u].account.st = "ok"
        /\ req[u].transactions.st = "failed"
        /\ req[u].token.st = "pending"

\* C18: in every report of analyzeToken the honeypot line is the high-risk
\* one exactly when no transaction was fetched: the account information is
\* present, and every fetched transaction is typed confirmed or failed,
\* never "receive".
C18_HighRiskIffEmpty ==
    \A r \in Requests :
        req[r].analysis.st = "ok" =>
            /\ req[r].account.value # Null
            /\ \A i \in 1..Len(req[r].transactions.value) :
                 /\ req[r].transactions.value[i].type \in FetchedTypes
                 /\ req[r].transactions.value[i].type # "receive"
            /\ (req[r].analysis.report.honeypot = HighRisk)
                   <=> (Len(req[r].transactions.value) = 0)
            /\ (req[r].analysis.report.honeypot = NoneDetected)
                   <=> (Len(req[r].transactions.value) > 0)

\* C18's case: a report over fetched transactions that are all confirmed,
\* with the none-detected line.
C18_Witness ==
    \E r \in Requests :
        /\ req[r].analysis.st = "ok"
        /\ Len(req[r].transactions.value) > 1
        /\ \A i \in 1..Len(req[r].transactions.value) :
             req[r].transactions.value[i].type = "confirmed"
        /\ req[r].analysis.report.honeypot = NoneDetected

\* The handler took request r with its two arguments.
Accepted(r) == req[r].pc # "idle" /\ req[r].address # ""

\* The replies of request r are the acknowledgement and one final reply.
Answered(r) ==
    /\ Len(req[r].replies) = 2
    /\ req[r].replies[1].kind = "ack"
    /\ req[r].replies[2].kind \in {"report", "error"}

\* C19: a request with two arguments is sent the acknowledgement first and
\* never more than one final reply after it, the report or an error; and,
\* every network call being answered at some time, it is sent that final
\* reply.
C19_AckThenOneFinal ==
    /\ [](\A r \in Requests :
            Accepted(r) =>
                /\ Len(req[r].replies) \in {1, 2}
                /\ req[r].replies[1].kind = "ack"
                /\ Len(req[r].replies) = 2 =>
                     /\ Answered(r)
                     /\ req[r].replies[2].kind = "report" <=> req[r].analysis.st = "ok"
                /\ req[r].pc = "done" <=> Answered(r))
    /\ \A r \in Requests : Accepted(r) ~> Answered(r)
    /\ [][\A r \in Requests : Answered(r) => req'[r].replies = req[r].replies]_vars

\* C19's case: of two requests served at once, one was sent the report and
\* the other an error, each after its acknowledgement.
C19_Witness ==
    \E r, u \in Requests :
        /\ Answered(r) /\ req[r].replies[2].kind = "report"
        /\ Answered(u) /\ req[u].replies[2].kind = "error"
        /\ IsPublicKey(req[u].address)

\* The analysis of request r is running with a call that is never answered.
Hung(r) == job[r].st = "executing" /\ req[r].transactions.st = "pending"

\* C20: once maxConcurrent running analyses each have a call that never
\* settles, a request not yet submitted is never started and never sent a
\* final reply.
C20_HungSlotsBlock ==
    \A r \in Tasks :
        []((Cardinality({u \in Tasks : Hung(u)}) = maxConcurrent /\ req[r].pc = "idle")
              => [](/\ job[r].st \notin {"executing", "done"}
                    /\ \A i \in 1..Len(req[r].replies) :
                         req[r].replies[i].kind \notin {"report", "error"}))

====
